---- MODULE Spec2Model ----
(***************************************************************************)
(* A model of the cube renderer (src/src/lib.rs, src/src/main.rs).         *)
(*                                                                         *)
(* Every f32 of the program is modelled as a fixed-point number: an        *)
(* integer count of 1/FP units (F(n) is the f32 n.0).  Sums and the f32    *)
(* remainder are exact on the values used; products and quotients round    *)
(* to the nearest 1/FP, as an f32 rounds to its nearest value.             *)
(***************************************************************************)
EXTENDS Integers, Sequences, FiniteSets, TLC

VARIABLES
    pc,               \* where the process is: "start", "parsed", "usage_error",
                      \* "build_error", "running", or "call" (a direct call of a function)
    argv,             \* the command line: [fov, dist], each None or Some(n)
    args,             \* the parsed Args (main.rs), or None
    camera_settings,  \* CubeState.camera_settings
    cube,             \* CubeState.cube
    cursor,           \* CubeState.cursor
    screen_width,     \* CubeState.screen_width
    screen_height,    \* CubeState.screen_height
    frame,            \* what the last draw handed to the canvas, or None
    result,           \* the GameResult of the last handler, or "none"
    key_since_draw,   \* history: a key_down_event ran since the last draw
    hist,             \* history of the direct key_down_event calls of SpecCursor
    point,            \* input of a direct call of a pure function
    attitude,         \* input of a direct call of get_rotated_point
    ret               \* the value a direct call returned, or None

vars == <<pc, argv, args, camera_settings, cube, cursor, screen_width,
          screen_height, frame, result, key_since_draw, hist, point,
          attitude, ret>>

None == <<>>
Some(v) == <<v>>

----------------------------------------------------------------------------
(* f32 arithmetic *)

FP == 1000

F(n) == n * FP

Abs(n) == IF n < 0 THEN -n ELSE n

\* n / d rounded to the nearest integer, ties away from zero (d # 0).
Round(n, d) ==
    LET s == IF (n < 0) = (d < 0) THEN 1 ELSE -1
        a == Abs(n)
        b == Abs(d)
    IN s * ((a + b \div 2) \div b)

FMul(a, b) == Round(a * b, FP)

FDiv(a, b) == Round(a * FP, b)

\* The f32 operator %: the remainder has the sign of the dividend (b > 0).
FRem(a, b) == IF a >= 0 THEN a % b ELSE -((-a) % b)

\* std::f32::consts::PI, to two decimals so that PI / 4 is a value of the model.
PI == 3140

HALF_PI == PI \div 2

\* f32::sin on [0, PI]: 16 r (PI - r) / (5 PI^2 - 4 r (PI - r)), which is
\* exact at 0, PI/2 and PI and within 0.002 of the sine elsewhere.  Both
\* terms are scaled by 1/8 to stay inside TLC's 32-bit integers.
SinHalfTurn(r) ==
    LET p  == (r * (PI - r)) \div 8
        hh == (HALF_PI * HALF_PI) \div 8
    IN Round(FP * 4 * p, 5 * hh - p)

sin(a) ==
    LET r == a % (2 * PI)
    IN IF r <= PI THEN SinHalfTurn(r) ELSE -SinHalfTurn(r - PI)

cos(a) == sin(a + HALF_PI)

tan(a) == FDiv(sin(a), cos(a))

to_radians(deg) == Round(FMul(deg, PI), 180)

----------------------------------------------------------------------------
(* lib.rs: data *)

CameraSettings_new(fov_angle_deg, camera_dist) ==
    [fov_angle_deg |-> F(fov_angle_deg), camera_dist |-> F(camera_dist)]

Point3(x, y, z) == [x |-> x, y |-> y, z |-> z]

Point2(x, y) == [x |-> x, y |-> y]

Cube_default ==
    [vertices |-> << Point3(F(-1), F(-1), F(-1)),   \* Front bottom left
                     Point3(F(1),  F(-1), F(-1)),   \* Front bottom right
                     Point3(F(1),  F(1),  F(-1)),   \* Front top right
                     Point3(F(-1), F(1),  F(-1)),   \* Front top left
                     Point3(F(-1), F(-1), F(1)),    \* Back bottom left
                     Point3(F(1),  F(-1), F(1)),    \* Back bottom right
                     Point3(F(1),  F(1),  F(1)),    \* Back top right
                     Point3(F(-1), F(1),  F(1)) >>] \* Back top left

----------------------------------------------------------------------------
(* lib.rs: get_rotated_point *)

yaw_matrix(att) ==
    << << cos(att.yaw), -sin(att.yaw), 0 >>,
       << sin(att.yaw), cos(att.yaw),  0 >>,
       << 0,            0,             F(1) >> >>

pitch_matrix(att) ==
    << << cos(att.pitch),  0,    sin(att.pitch) >>,
       << 0,               F(1), 0 >>,
       << -sin(att.pitch), 0,    cos(att.pitch) >> >>

roll_matrix(att) ==
    << << F(1), 0,             0 >>,
       << 0,    cos(att.roll), -sin(att.roll) >>,
       << 0,    sin(att.roll), cos(att.roll) >> >>

multiply_matrix_point(matrix, p) ==
    << FMul(p[1], matrix[1][1]) + FMul(p[2], matrix[1][2]) + FMul(p[3], matrix[1][3]),
       FMul(p[1], matrix[2][1]) + FMul(p[2], matrix[2][2]) + FMul(p[3], matrix[2][3]),
       FMul(p[1], matrix[3][1]) + FMul(p[2], matrix[3][2]) + FMul(p[3], matrix[3][3]) >>

\* A plausible slip: the matrices applied yaw first, then pitch, then roll.
get_rotated_point_yaw_first(pt, att) ==
    LET p1 == multiply_matrix_point(yaw_matrix(att), <<pt.x, pt.y, pt.z>>)
        p2 == multiply_matrix_point(pitch_matrix(att), p1)
        p3 == multiply_matrix_point(roll_matrix(att), p2)
    IN Point3(p3[1], p3[2], p3[3])

get_rotated_point(pt, att) ==
    LET p1 == multiply_matrix_point(roll_matrix(att), <<pt.x, pt.y, pt.z>>)
        p2 == multiply_matrix_point(pitch_matrix(att), p1)
        p3 == multiply_matrix_point(yaw_matrix(att), p2)
    IN Point3(p3[1], p3[2], p3[3])

----------------------------------------------------------------------------
(* lib.rs: project_3d_to_2d *)

\* A plausible slip: the fallback scale of the depth-zero branch is 0.0.
project_3d_to_2d_zero_fallback(pt, cs) ==
    LET half_fov_tan == tan(FDiv(to_radians(cs.fov_angle_deg), F(2)))
        depth == pt.z + cs.camera_dist
        scale == IF depth # 0 THEN FDiv(cs.camera_dist, depth) ELSE 0
    IN Point2(FDiv(FMul(pt.x, scale), half_fov_tan),
              FDiv(FMul(pt.y, scale), half_fov_tan))

\* A plausible slip: the scale is depth / camera_dist.
project_3d_to_2d_inverted_scale(pt, cs) ==
    LET half_fov_tan == tan(FDiv(to_radians(cs.fov_angle_deg), F(2)))
        depth == pt.z + cs.camera_dist
        scale == IF depth # 0 THEN FDiv(depth, cs.camera_dist) ELSE F(1)
    IN Point2(FDiv(FMul(pt.x, scale), half_fov_tan),
              FDiv(FMul(pt.y, scale), half_fov_tan))

project_3d_to_2d(pt, cs) ==
    LET fov_angle_rad == to_radians(cs.fov_angle_deg)
        half_fov      == FDiv(fov_angle_rad, F(2))
        half_fov_tan  == tan(half_fov)
        depth         == pt.z + cs.camera_dist
        scale         == IF depth # 0 THEN FDiv(cs.camera_dist, depth) ELSE F(1)
        x_proj        == FDiv(FMul(pt.x, scale), half_fov_tan)
        y_proj        == FDiv(FMul(pt.y, scale), half_fov_tan)
    IN Point2(x_proj, y_proj)

----------------------------------------------------------------------------
(* lib.rs: CubeState *)

CubeState == <<camera_settings, cube, cursor, screen_width, screen_height>>

ArrowKeys == {"Up", "Down", "Left", "Right"}

\* Some of the KeyCodes that are not arrows.
OtherKeys == {"Space", "Escape"}

KeyCodes == ArrowKeys \cup OtherKeys

\* KeyInput: keycode is an Option<KeyCode>.
KeyInputs == {[keycode |-> k] : k \in {None} \cup {Some(c) : c \in KeyCodes}}

\* The (dx, dy) of the match in update_cursor.
STEP == 10

\* A plausible slip: Left and Right both step by -10.
KeyDelta_left_as_right(key) ==
    CASE key = "Up"    -> <<0, F(-STEP)>>
      [] key = "Down"  -> <<0, F(STEP)>>
      [] key = "Left"  -> <<F(-STEP), 0>>
      [] key = "Right" -> <<F(-STEP), 0>>

\* A plausible slip: Right steps by half of what Left steps by.
KeyDelta_right_half_step(key) ==
    CASE key = "Up"    -> <<0, F(-STEP)>>
      [] key = "Down"  -> <<0, F(STEP)>>
      [] key = "Left"  -> <<F(STEP), 0>>
      [] key = "Right" -> <<-(F(STEP) \div 2), 0>>

KeyDelta(key) ==
    CASE key = "Up"    -> <<0, F(-STEP)>>
      [] key = "Down"  -> <<0, F(STEP)>>
      [] key = "Left"  -> <<F(STEP), 0>>
      [] key = "Right" -> <<F(-STEP), 0>>

\* A plausible slip: the catch-all arm of the match steps down, not returns.
update_cursor_default_moves(key) ==
    LET d == IF key \in ArrowKeys THEN KeyDelta(key) ELSE <<0, F(STEP)>>
    IN Point2(FRem(cursor.x + d[1] + screen_width, screen_width),
              FRem(cursor.y + d[2] + screen_height, screen_height))

\* The cursor that update_cursor(key) leaves.
update_cursor(key) ==
    IF key \notin ArrowKeys
    THEN cursor
    ELSE LET d == KeyDelta(key)
         IN Point2(FRem(cursor.x + d[1] + screen_width, screen_width),
                   FRem(cursor.y + d[2] + screen_height, screen_height))

Ok(handler) == [handler |-> handler, value |-> "Ok"]

update ==
    /\ result' = Ok("update")
    /\ UNCHANGED <<CubeState, frame>>

key_down_event(input) ==
    /\ cursor' = IF input.keycode # None
                 THEN update_cursor(input.keycode[1])
                 ELSE cursor
    /\ result' = Ok("key_down_event")
    /\ UNCHANGED <<camera_settings, cube, screen_width, screen_height, frame>>

edges ==
    << <<0, 1>>, <<1, 2>>, <<2, 3>>, <<3, 0>>,     \* Front face
       <<4, 5>>, <<5, 6>>, <<6, 7>>, <<7, 4>>,     \* Back face
       <<0, 4>>, <<1, 5>>, <<2, 6>>, <<3, 7>> >>   \* Connecting edges

\* The attitude draw computes from the cursor.
draw_attitude ==
    LET cursor_x_ratio == FMul(FDiv(cursor.x, screen_width), PI)
        cursor_y_ratio == FMul(FDiv(cursor.y, screen_height), PI)
    IN [yaw |-> 0, pitch |-> cursor_x_ratio, roll |-> cursor_y_ratio]

\* What draw hands to the canvas: the attitude it used, the 8 viewport
\* points (the circles) and the 12 lines between them.
draw_frame ==
    LET att == draw_attitude
        projected_vertices ==
            [i \in 1..Len(cube.vertices) |->
                LET point_3d == get_rotated_point(cube.vertices[i], att)
                    point_2d == project_3d_to_2d(point_3d, camera_settings)
                IN Point2(point_2d.x + FDiv(screen_width, F(2)),
                          point_2d.y + FDiv(screen_height, F(2)))]
    IN [attitude |-> att,
        projected_vertices |-> projected_vertices,
        lines |-> [e \in 1..Len(edges) |->
                      << projected_vertices[edges[e][1] + 1],
                         projected_vertices[edges[e][2] + 1] >>]]

\* A plausible slip: draw advances the cursor as it renders.
draw_moves_cursor ==
    /\ frame' = Some(draw_frame)
    /\ cursor' = update_cursor("Down")
    /\ result' = Ok("draw")
    /\ UNCHANGED <<camera_settings, cube, screen_width, screen_height>>

draw ==
    /\ frame' = Some(draw_frame)
    /\ result' = Ok("draw")
    /\ UNCHANGED CubeState

----------------------------------------------------------------------------
(* main.rs and run: the program *)

FOV_MIN == 1
FOV_MAX == 10
FOV_DEFAULT == 1
DIST_MIN == 1
DIST_MAX == 1000
DIST_DEFAULT == 256
U16_MAX == 65535

\* Command lines: each option absent or given an integer.
FovArgs == {None} \cup {Some(n) : n \in {0, 1, 10, 11, 90, 180, 181}}

DistArgs == {None} \cup {Some(n) : n \in {0, 1, 1000, 1001, U16_MAX + 1}}

\* clap::value_parser!(u16).range(lo..=hi) on a given value.
ValueParser(n, lo, hi) == n >= 0 /\ n <= U16_MAX /\ n >= lo /\ n <= hi

\* Args::parse: the parsed Args, or None when clap exits with a usage error.
Args_parse(av) ==
    IF /\ av.fov # None => ValueParser(av.fov[1], FOV_MIN, FOV_MAX)
       /\ av.dist # None => ValueParser(av.dist[1], DIST_MIN, DIST_MAX)
    THEN Some([fov_angle_deg |-> IF av.fov = None THEN FOV_DEFAULT ELSE av.fov[1],
               camera_dist   |-> IF av.dist = None THEN DIST_DEFAULT ELSE av.dist[1]])
    ELSE None

\* Drawable sizes of the window, in pixels.
SmallWidth == 4
LargeWidth == 15
SmallHeight == 5
LargeHeight == 14

Viewports == {<<F(w), F(h)>> : w \in {SmallWidth, LargeWidth},
                               h \in {SmallHeight, LargeHeight}}

NoCamera == [fov_angle_deg |-> 0, camera_dist |-> 0]
NoCube == [vertices |-> <<>>]
NoPoint3 == Point3(0, 0, 0)
NoAttitude == [yaw |-> 0, pitch |-> 0, roll |-> 0]

Init ==
    /\ pc = "start"
    /\ argv \in {[fov |-> f, dist |-> d] : f \in FovArgs, d \in DistArgs}
    /\ args = None
    /\ camera_settings = NoCamera
    /\ cube = NoCube
    /\ cursor = Point2(0, 0)
    /\ screen_width = 0
    /\ screen_height = 0
    /\ frame = None
    /\ result = Ok("none")
    /\ key_since_draw = FALSE
    /\ hist = <<>>
    /\ point = NoPoint3
    /\ attitude = NoAttitude
    /\ ret = None

\* main: Args::parse(), which ends the process on an invalid option.
ParseArgs ==
    /\ pc = "start"
    /\ args' = Args_parse(argv)
    /\ pc' = IF Args_parse(argv) = None THEN "usage_error" ELSE "parsed"
    /\ UNCHANGED <<argv, CubeState, frame, result, key_since_draw, hist,
                   point, attitude, ret>>

\* CubeState::new with the context's drawable size.
CubeState_new(cs, width, height) ==
    /\ camera_settings' = cs
    /\ cursor' = Point2(FDiv(width, F(2)), FDiv(height, F(2)))
    /\ cube' = Cube_default
    /\ screen_width' = width
    /\ screen_height' = height

\* main: CameraSettings::new, then run up to the start of the event loop.
Run ==
    /\ pc = "parsed"
    /\ \E size \in Viewports :
          CubeState_new(CameraSettings_new(args[1].fov_angle_deg,
                                           args[1].camera_dist),
                        size[1], size[2])
    /\ pc' = "running"
    /\ UNCHANGED <<argv, args, frame, result, key_since_draw, hist, point,
                   attitude, ret>>

\* run: the context cannot be built; main prints the error and returns.
RunBuildError ==
    /\ pc = "parsed"
    /\ pc' = "build_error"
    /\ UNCHANGED <<argv, args, CubeState, frame, result, key_since_draw,
                   hist, point, attitude, ret>>

\* The event loop calls a handler.
Update ==
    /\ pc = "running"
    /\ update
    /\ UNCHANGED <<pc, argv, args, key_since_draw, hist, point, attitude, ret>>

KeyDown ==
    /\ pc = "running"
    /\ \E input \in KeyInputs : key_down_event(input)
    /\ key_since_draw' = TRUE
    /\ UNCHANGED <<pc, argv, args, hist, point, attitude, ret>>

Draw ==
    /\ pc = "running"
    /\ draw
    /\ key_since_draw' = FALSE
    /\ UNCHANGED <<pc, argv, args, hist, point, attitude, ret>>

Next == ParseArgs \/ Run \/ RunBuildError \/ Update \/ KeyDown \/ Draw

Spec == Init /\ [][Next]_vars

----------------------------------------------------------------------------
(* Direct calls of key_down_event on a CubeState built as the tests of     *)
(* lib.rs build it: any cursor, inside, on or outside the viewport.        *)

TEST_FOV == 90
TEST_DIST == 10
TEST_WIDTH == 800
TEST_HEIGHT == 600
EDGE_OFFSET == 5

MaxCalls == 2

CursorSamples(dim) ==
    {F(-EDGE_OFFSET), 0, F(EDGE_OFFSET), FDiv(dim, F(2)), dim - F(EDGE_OFFSET),
     dim, dim + F(EDGE_OFFSET)}

InitCursor ==
    /\ pc = "call"
    /\ argv = [fov |-> None, dist |-> None]
    /\ args = None
    /\ camera_settings = CameraSettings_new(TEST_FOV, TEST_DIST)
    /\ cube = Cube_default
    /\ \E size \in Viewports \cup {<<F(TEST_WIDTH), F(TEST_HEIGHT)>>} :
          /\ screen_width = size[1]
          /\ screen_height = size[2]
          /\ cursor \in {Point2(x, y) : x \in CursorSamples(size[1]),
                                        y \in CursorSamples(size[2])}
    /\ frame = None
    /\ result = Ok("none")
    /\ key_since_draw = FALSE
    /\ hist = <<>>
    /\ point = NoPoint3
    /\ attitude = NoAttitude
    /\ ret = None

CallKeyDownEvent ==
    /\ pc = "call"
    /\ Len(hist) < MaxCalls
    /\ \E input \in KeyInputs :
          /\ key_down_event(input)
          /\ hist' = Append(hist, [keycode |-> input.keycode,
                                   before  |-> cursor,
                                   result  |-> result'])
    /\ UNCHANGED <<pc, argv, args, key_since_draw, point, attitude, ret>>

NextCursor == CallKeyDownEvent

SpecCursor == InitCursor /\ [][NextCursor]_vars

\* The cursor after the i-th call of hist.
After(i) == IF i = Len(hist) THEN cursor ELSE hist[i + 1].before

InViewport(c) ==
    /\ 0 <= c.x /\ c.x < screen_width
    /\ 0 <= c.y /\ c.y < screen_height

----------------------------------------------------------------------------
(* Direct calls of get_rotated_point on attitudes of whole quarter turns.  *)

MaxRotCoord == 2
MaxQuarter == 3

RotPoints ==
    {Point3(F(x), F(y), F(z)) : x \in -MaxRotCoord..MaxRotCoord,
                                y \in -MaxRotCoord..MaxRotCoord,
                                z \in -MaxRotCoord..MaxRotCoord}

QuarterAttitudes ==
    {[yaw |-> a * HALF_PI, pitch |-> b * HALF_PI, roll |-> c * HALF_PI] :
        a \in 0..MaxQuarter, b \in 0..MaxQuarter, c \in 0..MaxQuarter}

InitRotate ==
    /\ pc = "call"
    /\ argv = [fov |-> None, dist |-> None]
    /\ args = None
    /\ camera_settings = NoCamera
    /\ cube = NoCube
    /\ cursor = Point2(0, 0)
    /\ screen_width = 0
    /\ screen_height = 0
    /\ frame = None
    /\ result = Ok("none")
    /\ key_since_draw = FALSE
    /\ hist = <<>>
    /\ point \in RotPoints
    /\ attitude \in QuarterAttitudes
    /\ ret = None

CallRotate ==
    /\ pc = "call"
    /\ ret = None
    /\ ret' = Some(get_rotated_point(point, attitude))
    /\ UNCHANGED <<pc, argv, args, CubeState, frame, result, key_since_draw,
                   hist, point, attitude>>

NextRotate == CallRotate

SpecRotate == InitRotate /\ [][NextRotate]_vars

----------------------------------------------------------------------------
(* Direct calls of project_3d_to_2d.                                       *)

MaxCoord == 5

ProjPoints ==
    {Point3(F(x), F(y), F(z)) : x \in -MaxCoord..MaxCoord,
                                y \in -MaxCoord..MaxCoord,
                                z \in {-20, -10, -1, 0, 1, 10}}

ProjCameras ==
    {CameraSettings_new(f, d) : f \in {1, 10, 60, 90}, d \in {1, 10, 256, 1000}}

InitProject ==
    /\ pc = "call"
    /\ argv = [fov |-> None, dist |-> None]
    /\ args = None
    /\ camera_settings \in ProjCameras
    /\ cube = NoCube
    /\ cursor = Point2(0, 0)
    /\ screen_width = 0
    /\ screen_height = 0
    /\ frame = None
    /\ result = Ok("none")
    /\ key_since_draw = FALSE
    /\ hist = <<>>
    /\ point \in ProjPoints
    /\ attitude = NoAttitude
    /\ ret = None

CallProject ==
    /\ pc = "call"
    /\ ret = None
    /\ ret' = Some(project_3d_to_2d(point, camera_settings))
    /\ UNCHANGED <<pc, argv, args, CubeState, frame, result, key_since_draw,
                   hist, point, attitude>>

NextProject == CallProject

SpecProject == InitProject /\ [][NextProject]_vars

----------------------------------------------------------------------------
(* The claims *)

\* C1: in the running program, after any sequence of key presses from the
\* centred cursor, 0 <= cursor.x < screen_width and
\* 0 <= cursor.y < screen_height, whatever the positive viewport size.
C1_CursorInViewport == pc = "running" => InViewport(cursor)

\* C2: from a cursor inside the viewport, an arrow key moves the cursor by
\* 10 units along one axis modulo that axis' dimension, with the remainder
\* the program takes (the sign of the dividend): Right gives
\* x' = (x - 10 + w) mod w, Left x' = (x + 10 + w) mod w, Down
\* y' = (y + 10 + h) mod h, Up y' = (y - 10 + h) mod h, each congruent to
\* the moved coordinate, and the coordinate of the other axis is unchanged.
C2_ArrowStep ==
    \A i \in 1..Len(hist) :
        LET b == hist[i].before
            a == After(i)
            k == hist[i].keycode
            w == screen_width
            h == screen_height
        IN (k # None /\ InViewport(b)) =>
              /\ k[1] = "Right" => /\ a.x = FRem(b.x - F(10) + w, w)
                                   /\ (a.x - (b.x - F(10))) % w = 0
                                   /\ a.y = b.y
              /\ k[1] = "Left"  => /\ a.x = FRem(b.x + F(10) + w, w)
                                   /\ (a.x - (b.x + F(10))) % w = 0
                                   /\ a.y = b.y
              /\ k[1] = "Down"  => /\ a.y = FRem(b.y + F(10) + h, h)
                                   /\ (a.y - (b.y + F(10))) % h = 0
                                   /\ a.x = b.x
              /\ k[1] = "Up"    => /\ a.y = FRem(b.y - F(10) + h, h)
                                   /\ (a.y - (b.y - F(10))) % h = 0
                                   /\ a.x = b.x

\* C2 witness: on the 800 x 600 viewport, Right from x = 5 wraps to x = 795.
C2_Witness ==
    /\ hist # <<>>
    /\ screen_width = F(800)
    /\ hist[1].keycode = Some("Right")
    /\ InViewport(hist[1].before)
    /\ hist[1].before.x = F(5)
    /\ After(1).x = F(795)

\* C3: a key other than Up, Down, Left and Right, or an event without a
\* keycode, leaves cursor.x and cursor.y unchanged whatever the cursor is
\* (on or outside the viewport bounds too), and the handler returns Ok.
C3_OtherKeyNoOp ==
    \A i \in 1..Len(hist) :
        LET k == hist[i].keycode
        IN (k = None \/ k[1] \notin ArrowKeys) =>
              /\ After(i) = hist[i].before
              /\ hist[i].result.value = "Ok"

\* C3 witness: Space pressed with the cursor outside the viewport, and an
\* event without a keycode.
C3_Witness ==
    /\ Len(hist) = 2
    /\ hist[1].keycode = Some("Space")
    /\ hist[1].before.x > screen_width
    /\ hist[1].before.y < 0
    /\ hist[2].keycode = None

\* C4: from a cursor inside the viewport, Right then Left and Left then
\* Right return cursor.x to its original value modulo screen_width, and Up
\* then Down and Down then Up return cursor.y to its original value modulo
\* screen_height (the very value, when the result is inside the viewport).
C4_OppositeKeysCancel ==
    \A i \in 1..(Len(hist) - 1) :
        LET b  == hist[i].before
            a  == After(i + 1)
            k1 == hist[i].keycode
            k2 == hist[i + 1].keycode
        IN (InViewport(b) /\ k1 # None /\ k2 # None) =>
              /\ <<k1[1], k2[1]>> \in {<<"Right", "Left">>, <<"Left", "Right">>} =>
                    /\ (a.x - b.x) % screen_width = 0
                    /\ (0 <= a.x /\ a.x < screen_width) => a.x = b.x
              /\ <<k1[1], k2[1]>> \in {<<"Up", "Down">>, <<"Down", "Up">>} =>
                    /\ (a.y - b.y) % screen_height = 0
                    /\ (0 <= a.y /\ a.y < screen_height) => a.y = b.y

\* C4 witness: Right wraps from x = 5 to x = 795 and Left brings x = 5 back.
C4_Witness ==
    /\ Len(hist) = 2
    /\ screen_width = F(800)
    /\ hist[1].keycode = Some("Right")
    /\ hist[2].keycode = Some("Left")
    /\ InViewport(hist[1].before)
    /\ hist[1].before.x = F(5)
    /\ hist[2].before.x = F(795)
    /\ cursor.x = F(5)

HalfFovTan(cs) == tan(FDiv(to_radians(cs.fov_angle_deg), F(2)))

\* C5: a point with z = -camera_dist (depth 0) projects with scale 1, to
\* (x / half_fov_tan, y / half_fov_tan); with FOV 90 and camera_dist 10 the
\* point (1, 1, -10) projects to (1, 1).
C5_DepthZeroGuard ==
    (ret # None /\ point.z + camera_settings.camera_dist = 0) =>
        /\ ret[1] = Point2(FDiv(point.x, HalfFovTan(camera_settings)),
                           FDiv(point.y, HalfFovTan(camera_settings)))
        /\ (camera_settings = CameraSettings_new(90, 10)
              /\ point = Point3(F(1), F(1), F(-10)))
           => ret[1] = Point2(F(1), F(1))

\* C5 witness: (1, 1, -10) projected with FOV 90 and camera_dist 10.
C5_Witness ==
    /\ ret = Some(Point2(F(1), F(1)))
    /\ camera_settings = CameraSettings_new(90, 10)
    /\ point = Point3(F(1), F(1), F(-10))

\* C6: a point with depth = z + camera_dist # 0 projects to
\* (x * s / t, y * s / t), s = camera_dist / depth, t = tan(fov / 2); with
\* FOV 90 and camera_dist 10 a point at z = 0 projects to its own (x, y)
\* and a point at z = 10 to half of it; a point behind the camera
\* (depth < 0) is not clipped and projects with a negative scale.
C6_PerspectiveDivide ==
    LET cs    == camera_settings
        depth == point.z + cs.camera_dist
        s     == FDiv(cs.camera_dist, depth)
        t     == HalfFovTan(cs)
    IN (ret # None /\ depth # 0) =>
          /\ ret[1] = Point2(FDiv(FMul(point.x, s), t), FDiv(FMul(point.y, s), t))
          /\ (cs = CameraSettings_new(90, 10) /\ point.z = 0)
                => ret[1] = Point2(point.x, point.y)
          /\ (cs = CameraSettings_new(90, 10) /\ point.z = F(10))
                => /\ 2 * ret[1].x = point.x
                   /\ 2 * ret[1].y = point.y
          /\ (cs = CameraSettings_new(90, 10) /\ point.z = F(-20))
                => ret[1] = Point2(-point.x, -point.y)
          /\ depth < 0 => /\ s < 0
                          /\ point.x > 0 => ret[1].x < 0
                          /\ point.x < 0 => ret[1].x > 0
                          /\ point.y > 0 => ret[1].y < 0
                          /\ point.y < 0 => ret[1].y > 0

\* C6 witness: (5, 3, 10) projected to (2.5, 1.5) with FOV 90, camera_dist 10.
C6_Witness ==
    /\ ret = Some(Point2(F(5) \div 2, F(3) \div 2))
    /\ camera_settings = CameraSettings_new(90, 10)
    /\ point = Point3(F(5), F(3), F(10))

\* Exact cosine and sine of k quarter turns.
QCos(k) == CASE k % 4 = 0 -> 1 [] k % 4 = 1 -> 0 [] k % 4 = 2 -> -1 [] k % 4 = 3 -> 0

QSin(k) == CASE k % 4 = 0 -> 0 [] k % 4 = 1 -> 1 [] k % 4 = 2 -> 0 [] k % 4 = 3 -> -1

QRoll(p, k) ==
    Point3(p.x, QCos(k) * p.y - QSin(k) * p.z, QSin(k) * p.y + QCos(k) * p.z)

QPitch(p, k) ==
    Point3(QCos(k) * p.x + QSin(k) * p.z, p.y, QCos(k) * p.z - QSin(k) * p.x)

QYaw(p, k) ==
    Point3(QCos(k) * p.x - QSin(k) * p.y, QSin(k) * p.x + QCos(k) * p.y, p.z)

\* C7: for yaw, pitch and roll multiples of 90 degrees, get_rotated_point
\* applies roll first, then pitch, then yaw: the result is
\* yaw_matrix * (pitch_matrix * (roll_matrix * p)).  The zero attitude
\* returns p; yaw 90 maps (1,0,0) to (0,1,0); pitch 90 maps (1,0,0) to
\* (0,0,-1); roll 90 maps (0,1,0) to (0,0,1); yaw 90 with pitch 90 maps
\* (1,0,0) to (0,0,-1).
C7_RotationOrder ==
    LET ky == attitude.yaw \div HALF_PI
        kp == attitude.pitch \div HALF_PI
        kr == attitude.roll \div HALF_PI
        q  == [yaw |-> ky, pitch |-> kp, roll |-> kr]
        e1 == Point3(F(1), 0, 0)
        e2 == Point3(0, F(1), 0)
    IN ret # None =>
          /\ ret[1] = QYaw(QPitch(QRoll(point, kr), kp), ky)
          /\ q = [yaw |-> 0, pitch |-> 0, roll |-> 0] => ret[1] = point
          /\ (q = [yaw |-> 1, pitch |-> 0, roll |-> 0] /\ point = e1)
                => ret[1] = Point3(0, F(1), 0)
          /\ (q = [yaw |-> 0, pitch |-> 1, roll |-> 0] /\ point = e1)
                => ret[1] = Point3(0, 0, F(-1))
          /\ (q = [yaw |-> 0, pitch |-> 0, roll |-> 1] /\ point = e2)
                => ret[1] = Point3(0, 0, F(1))
          /\ (q = [yaw |-> 1, pitch |-> 1, roll |-> 0] /\ point = e1)
                => ret[1] = Point3(0, 0, F(-1))

\* C7 witness: yaw 90 with pitch 90 has mapped (1,0,0) to (0,0,-1).
C7_Witness ==
    /\ ret = Some(Point3(0, 0, F(-1)))
    /\ attitude = [yaw |-> HALF_PI, pitch |-> HALF_PI, roll |-> 0]
    /\ point = Point3(F(1), 0, 0)

\* C8: every frame drawn uses yaw = 0, pitch = (cursor.x / screen_width) * pi
\* and roll = (cursor.y / screen_height) * pi, the two ratios lie in [0, 1]
\* and pitch and roll lie in [0, pi].
C8_AttitudeFromCursor ==
    frame # None =>
        LET att == frame[1].attitude
        IN /\ att.yaw = 0
           /\ 0 <= att.pitch /\ att.pitch <= PI
           /\ 0 <= att.roll /\ att.roll <= PI
           /\ ~key_since_draw =>
                 /\ att.pitch = FMul(FDiv(cursor.x, screen_width), PI)
                 /\ att.roll = FMul(FDiv(cursor.y, screen_height), PI)
                 /\ 0 <= FDiv(cursor.x, screen_width)
                 /\ FDiv(cursor.x, screen_width) <= F(1)
                 /\ 0 <= FDiv(cursor.y, screen_height)
                 /\ FDiv(cursor.y, screen_height) <= F(1)

InRange(opt, lo, hi) == opt = None \/ (lo <= opt[1] /\ opt[1] <= hi)

\* C9: the parser accepts every fov_angle_deg in 1..=180 and camera_dist in
\* 1..=1000 and rejects every value outside them, so CameraSettings::new is
\* called only with values in these ranges, which it stores unchanged.
C9_ConfigurationValidation ==
    /\ pc # "start" =>
          (pc # "usage_error" <=> (InRange(argv.fov, 1, 180) /\ InRange(argv.dist, 1, 1000)))
    /\ pc = "running" =>
          /\ camera_settings.fov_angle_deg \in {F(n) : n \in 1..180}
          /\ camera_settings.camera_dist \in {F(n) : n \in 1..1000}
          /\ camera_settings = [fov_angle_deg |-> F(args[1].fov_angle_deg),
                                camera_dist   |-> F(args[1].camera_dist)]

\* C10: once the program runs, camera_settings, the 8 cube vertices,
\* screen_width and screen_height never change; the cursor changes only in
\* a key_down_event of an arrow key; update and draw leave the whole state
\* unchanged; and a draw with no key event since the last draw computes the
\* same 8 viewport points.
C10_OnlyArrowKeysChangeState ==
    [][ pc = "running" =>
          /\ Len(cube.vertices) = 8
          /\ UNCHANGED <<camera_settings, cube, screen_width, screen_height>>
          /\ cursor' # cursor =>
                /\ result'.handler = "key_down_event"
                /\ \E k \in ArrowKeys : cursor' = update_cursor(k)
          /\ result'.handler \in {"update", "draw"} => UNCHANGED CubeState
          /\ (result'.handler = "draw" /\ frame # None /\ ~key_since_draw) =>
                frame'[1].projected_vertices = frame[1].projected_vertices
      ]_vars

\* C10 witness: keys moved the cursor, a frame was drawn, and update ran
\* after it with no key event in between.
C10_Witness ==
    /\ pc = "running"
    /\ frame # None
    /\ ~key_since_draw
    /\ result.handler = "update"
    /\ cursor # Point2(FDiv(screen_width, F(2)), FDiv(screen_height, F(2)))

====
